---------------------------- MODULE Spec2Model ----------------------------
(***************************************************************************)
(* The interactive annotation surface, InteractiveImageDisplay             *)
(* (src/src/components/InteractiveImageDisplay.tsx; the copy under         *)
(* src/components/ has the same logic).                                    *)
(*                                                                         *)
(* The component's React state (image, drawingPaths, isDrawing,            *)
(* currentPath) and its imageFile prop are the variables.  Every handler   *)
(* is one action: it reads the state of the last committed render and      *)
(* its setState calls are applied together before the next event is        *)
(* dispatched.  The asynchronous load (FileReader, then Image decoding)    *)
(* is a set of requests in flight, each completing in a later step: the    *)
(* reader.onload callback changes no component state (it creates the       *)
(* Image and assigns its src), so a request is one pending entry from      *)
(* readAsDataURL until img.onload, img.onerror or a failed read ends it.   *)
(*                                                                         *)
(* The canvas is drawn by an effect, after the render that follows a       *)
(* state change.  A browser event (pointer, load completion) or a prop     *)
(* change is dispatched only after the previous render and its effects,    *)
(* so those actions include the render.  The methods of the ref are        *)
(* called by host code, which can call another one before React renders:   *)
(* after clearSelection the render is a step of its own (Render), and      *)
(* until it is taken the canvas and the closures of the ref's methods      *)
(* are those of the latest render (shown).                                 *)
(*                                                                         *)
(* The host App (src/unnamed/part_001) mounts the component only while it  *)
(* holds an uploaded file.  Its Clear All handler unmounts the component:  *)
(* the component state is gone, and the callbacks of a load still in       *)
(* flight belong to the unmounted instance (orphan), where setState does   *)
(* nothing and onSelectionChange still reaches the host.                   *)
(*                                                                         *)
(* The draw effect scales the image into the maxDisplayWidth x             *)
(* maxDisplayHeight props (maxDisplay) from its naturalWidth and           *)
(* naturalHeight (natural), in the language's floating-point numbers, and  *)
(* the canvas keeps the integral part of the sizes it is given.  Spec is   *)
(* the component in the host App, with the App's bounds; ScaleSpec is the  *)
(* display of one image of any natural size under any bounds.              *)
(*                                                                         *)
(* DrawSpec is the drawing on one image with the canvas that each run of   *)
(* the draw effect finds; CallbackSpec is Spec under a host that passes    *)
(* another onSelectionChange function with a render.                       *)
(*                                                                         *)
(* ImageUploader (src/components/ImageUploader.tsx) and geminiService (the *)
(* same file from line 101, with the client kept by getGeminiClient;       *)
(* src/utils/geminiService.ts has the same checks and the same catch       *)
(* block) are modelled on their own, in UploaderSpec and ServiceSpec.  A   *)
(* call of getExplanationForImageRegion is two steps, before and after its *)
(* await; handled and outcome are the history variables of the two.        *)
(*                                                                         *)
(* LiveSpec is Spec with fairness: a load request in flight ends, by one   *)
(* of its callbacks or by a failed read, and a pending render is taken.    *)
(*                                                                         *)
(* AppSpec, AppLiveSpec and PageSpec are the App as a whole: the           *)
(* uploader's onImageUpload is the App's handleImageUpload, its disabled   *)
(* prop is the App's isLoading, and the Learn button calls the service     *)
(* with the display's export.  handleLearn is two steps, before and after  *)
(* its await; a call that the service rejects before its request is over   *)
(* within the task of the click, so it is one step.  A handler's setState  *)
(* calls are rendered before the next event, and the display is unmounted  *)
(* by the render that follows Clear All.  In AppSpec files are dropped on  *)
(* the uploader, one when the read of the one before is over; in PageSpec  *)
(* files come by the chooser or by drop and nothing is drawn.  While the   *)
(* browser's file chooser is open the page gets no other input.            *)
(* AppLiveSpec adds that the API's answer to a request arrives.  act is    *)
(* the history variable of the App's handlers.                             *)
(*                                                                         *)
(* last, pre and gesture are history variables: the operation that made    *)
(* the latest step with what it passed to onSelectionChange, the           *)
(* component state it started from, and the pointer positions delivered    *)
(* since the latest pointer-down from Idle on a bitmap (empty once any     *)
(* other operation intervenes).  They are read only to update themselves.  *)
(***************************************************************************)
EXTENDS Integers, Sequences, FiniteSets, TLC

VARIABLES
    imageFile,      \* the imageFile prop: a source, or NoFile for null
    image,          \* useState image: the decoded source, or NoImage for null
    drawingPaths,   \* useState drawingPaths: the committed strokes
    isDrawing,      \* useState isDrawing
    currentPath,    \* useState currentPath: the stroke in progress
    loads,          \* load requests in flight (FileReader / Image callbacks pending),
                    \* each marked orphan once its component instance is unmounted
    nextReq,        \* number of the next load request
    hasMarkings,    \* the value most recently passed to onSelectionChange
    shown,          \* the component state of the latest render, which the canvas shows
    natural,        \* naturalWidth and naturalHeight of each source's decoded image
    maxDisplay,     \* the maxDisplayWidth and maxDisplayHeight props
    last,           \* history: the latest operation and its notifications
    pre,            \* history: the component state before the latest operation
    gesture,        \* history: canvas points of the pointer events since pointer-down
    fileName,       \* ImageUploader: useState fileName, or NoName for null
    disabled,       \* ImageUploader: the disabled prop
    value,          \* ImageUploader: the file input's value, "" when it has no file
    chooser,        \* ImageUploader: the browser's file chooser is open for the input
    handled,        \* history: the latest event on the uploader and what its handler did
    _ai,            \* geminiService: the client that getGeminiClient keeps
    requests,       \* geminiService: generateContent calls awaiting the API's response
    outcome,        \* history: the latest step of the service and its result
    API_KEY,        \* App: process.env.API_KEY, "" when not set
    error,          \* App: useState error, <<>> for null
    geminiResponse, \* App: useState geminiResponse, <<>> for null
    learning,       \* App: calls of handleLearn that are at their await
    act             \* history: the latest handler of the App and what it started from

uploaderVars == <<fileName, disabled, value, chooser, handled>>

serviceVars == <<_ai, requests, outcome>>

hostVars == <<API_KEY, error, geminiResponse, learning, act>>

vars == <<imageFile, image, drawingPaths, isDrawing, currentPath, loads, nextReq,
          hasMarkings, shown, natural, maxDisplay, last, pre, gesture,
          uploaderVars, serviceVars, hostVars>>

-----------------------------------------------------------------------------
(* Bounds of the model *)

\* load requests started over a run
MaxLoads == 2
\* points held at once, in the committed strokes and the stroke in progress
MaxPoints == 3

-----------------------------------------------------------------------------
(* Inputs *)

NoFile == "null"
NoImage == "null"

\* image sources the host can supply; X cannot be decoded as an image
Sources == {"A", "B", "X"}
Decodable == {"A", "B"}

\* viewport positions of a pointer, and on-screen origins of the canvas
ClientPositions == {[clientX |-> 50, clientY |-> 10], [clientX |-> 90, clientY |-> 10]}
Rects == {[left |-> 40, top |-> 0]}

\* native events: a mouse event with its button, or a touch event with its contacts
MouseEvents ==
    {[type |-> "mouse", button |-> b, clientX |-> c.clientX, clientY |-> c.clientY,
      touches |-> <<>>] : b \in {0, 2}, c \in ClientPositions}
TouchEvents ==
    {[type |-> "touch", button |-> 0, clientX |-> 0, clientY |-> 0, touches |-> t] :
        t \in {<<c>> : c \in ClientPositions}
              \cup {t2 \in ClientPositions \X ClientPositions : t2[1] # t2[2]}}
PointerEvents == MouseEvents \cup TouchEvents

\* move events: a mousemove carries button 0, a touchmove the moving contact
MoveEvents == {e \in PointerEvents : e.button = 0 /\ Len(e.touches) <= 1}

\* natural sizes of decoded images
Size(w, h) == [naturalWidth |-> w, naturalHeight |-> h]
NaturalSizes ==
    {Size(1, 1), Size(100, 50), Size(333, 1000), Size(400, 547), Size(400, 591),
     Size(600, 450), Size(601, 1), Size(640, 480), Size(800, 600), Size(800, 601),
     Size(801, 1), Size(801, 600), Size(1, 2000), Size(1000, 333), Size(1024, 768),
     Size(1060, 500), Size(1078, 500), Size(1101, 400), Size(1109, 400),
     Size(1920, 1080), Size(2000, 1000), Size(2129, 1000), Size(3000, 2000),
     Size(4000, 3000)}

\* display bounds: the defaults of the props, and those the host App passes
Bounds(w, h) == [maxDisplayWidth |-> w, maxDisplayHeight |-> h]
DefaultBounds == Bounds(800, 600)
AppBounds == Bounds(600, 450)
DisplayBounds == {DefaultBounds, AppBounds}

\* the images of the host App's run: A is a photograph, B a strip one pixel high
AppImages ==
    [src \in Decodable |-> IF src = "A" THEN Size(2000, 1000) ELSE Size(601, 1)]

-----------------------------------------------------------------------------
(* Helpers *)

\* getMousePos: the event's position (mouse, or first touch contact) minus the
\* canvas's bounding-rectangle origin
getMousePos(rect, evt) ==
    LET cx == IF evt.type = "touch" THEN evt.touches[1].clientX ELSE evt.clientX
        cy == IF evt.type = "touch" THEN evt.touches[1].clientY ELSE evt.clientY
    IN  [x |-> cx - rect.left, y |-> cy - rect.top]

\* the component state an operation starts from
Snapshot ==
    [image |-> image, drawingPaths |-> drawingPaths, isDrawing |-> isDrawing,
     currentPath |-> currentPath, hasMarkings |-> hasMarkings]

\* stands for "no load request" in the record of an operation
NoReq == [id |-> 0, src |-> NoFile, orphan |-> FALSE]

\* what an operation records: its name, the load request it starts or completes
\* (NoReq if none), and the values it passed to onSelectionChange, in order
Op(name, req, notes) == [op |-> name, req |-> req, notify |-> notes]

\* the most recent load request started
LatestReq == nextReq - 1

RECURSIVE SumLen(_)
SumLen(paths) == IF paths = <<>> THEN 0 ELSE Len(Head(paths)) + SumLen(Tail(paths))

\* points the component state holds
Points(s) == SumLen(s.drawingPaths) + Len(s.currentPath)

-----------------------------------------------------------------------------
(* Numbers.  Every number of the component is an IEEE 754 double.  A positive *)
(* double is [m, e]: m its 53 significand bits, most significant (a 1)       *)
(* first, and e the binary exponent of the last of them.  Division and       *)
(* multiplication compute the exact result and round it to nearest, ties to  *)
(* even, as the language does.                                               *)

\* significand bits of a double
MantissaBits == 53
\* natural sizes and display bounds are below 2^IntBits
IntBits == 12

\* binary digits are held in limbs of LimbBits digits where they are multiplied
LimbBits == 16

\* the number of binary digits of a natural number below 2^30
bitLength(n) == CHOOSE k \in 0..30 : n < 2^k /\ (k = 0 \/ 2^(k - 1) <= n)

\* the last k binary digits of a natural number, most significant first
digits(n, k) == [i \in 1..k |-> (n \div 2^(k - i)) % 2]

\* the binary digits of a natural number, most significant first
binary(n) == digits(n, bitLength(n))

\* the natural number that binary digits denote
RECURSIVE valueOf(_)
valueOf(bits) ==
    IF bits = <<>> THEN 0
    ELSE 2 * valueOf(SubSeq(bits, 1, Len(bits) - 1)) + bits[Len(bits)]

\* 2^i modulo b, by repeated squaring
RECURSIVE pow2mod(_, _)
pow2mod(i, b) ==
    IF i = 0 THEN 1 % b
    ELSE LET h == pow2mod(i \div 2, b)
         IN  (((h * h) % b) * (IF i % 2 = 1 THEN 2 ELSE 1)) % b

\* the remainder that long division of r / b (r < b) leaves after k digits
remainderAfter(r, b, k) == (r * pow2mod(k, b)) % b

\* the first k binary digits of the fraction r / b (r < b): digit i is the
\* quotient of twice the remainder left after i - 1 digits
quotientBits(r, b, k) == [i \in 1..k |-> (2 * remainderAfter(r, b, i - 1)) \div b]

\* the number of zeros before the first 1 of binary digits that hold a 1
leadingZeros(bits) ==
    (CHOOSE i \in 1..Len(bits) : bits[i] = 1 /\ \A j \in 1..(i - 1) : bits[j] = 0) - 1

\* binary digits plus one; one digit longer when every digit is 1
increment(bits) ==
    IF \A i \in 1..Len(bits) : bits[i] = 1
    THEN <<1>> \o [i \in 1..Len(bits) |-> 0]
    ELSE LET z == CHOOSE i \in 1..Len(bits) :
                      bits[i] = 0 /\ \A j \in (i + 1)..Len(bits) : bits[j] = 1
         IN  [i \in 1..Len(bits) |-> IF i < z THEN bits[i] ELSE IF i = z THEN 1 ELSE 0]

\* the double nearest to the positive number with the given binary digits, the
\* last of weight 2^exp, plus (if sticky) a non-zero amount below that weight
roundToDouble(bits, exp, sticky) ==
    LET sig == SubSeq(bits, leadingZeros(bits) + 1, Len(bits))
        n == Len(sig)
    IN  IF n <= MantissaBits
        THEN [m |-> sig \o [i \in 1..(MantissaBits - n) |-> 0],
              e |-> exp - (MantissaBits - n)]
        ELSE LET kept == SubSeq(sig, 1, MantissaBits)
                 half == sig[MantissaBits + 1] = 1
                 more == sticky \/ \E i \in (MantissaBits + 2)..n : sig[i] = 1
                 up == half /\ (more \/ kept[MantissaBits] = 1)
                 e0 == exp + (n - MantissaBits)
                 inc == increment(kept)
             IN  IF ~up THEN [m |-> kept, e |-> e0]
                 ELSE IF Len(inc) > MantissaBits
                      THEN [m |-> SubSeq(inc, 1, MantissaBits), e |-> e0 + 1]
                      ELSE [m |-> inc, e |-> e0]

\* a positive integer as a double
number(n) == roundToDouble(binary(n), 0, FALSE)

\* a / b for positive integers a and b
divide(a, b) ==
    LET k == MantissaBits + IntBits + 1
    IN  roundToDouble(binary(a \div b) \o quotientBits(a % b, b, k), 0 - k,
                      remainderAfter(a % b, b, k) # 0)

\* binary digits times a natural number below 2^IntBits, plus carry: the
\* digits are multiplied limb by limb from the last
RECURSIVE timesInt(_, _, _)
timesInt(bits, n, carry) ==
    IF Len(bits) <= LimbBits THEN binary(valueOf(bits) * n + carry)
    ELSE LET t == valueOf(SubSeq(bits, Len(bits) - LimbBits + 1, Len(bits))) * n + carry
         IN  timesInt(SubSeq(bits, 1, Len(bits) - LimbBits), n, t \div 2^LimbBits)
                 \o digits(t % 2^LimbBits, LimbBits)

\* n * d for a positive integer n and a double d
multiply(n, d) == roundToDouble(timesInt(d.m, n, 0), d.e, FALSE)

\* x < y for doubles
lessThan(x, y) ==
    \/ x.e < y.e
    \/ /\ x.e = y.e
       /\ \E i \in 1..MantissaBits :
              x.m[i] < y.m[i] /\ \A j \in 1..(i - 1) : x.m[j] = y.m[j]

\* Math.min
min(x, y) == IF lessThan(y, x) THEN y ELSE x

\* the integer that an assignment to canvas.width or canvas.height keeps of a
\* double: its integral part
truncate(d) ==
    IF MantissaBits + d.e <= 0 THEN 0 ELSE valueOf(SubSeq(d.m, 1, MantissaBits + d.e))

-----------------------------------------------------------------------------
(* The draw effect and the export.  The canvas is what the draw effect      *)
(* leaves: its dimensions, the image drawn and the strokes stroked over it. *)

scaleX(img, props) == divide(props.maxDisplayWidth, img.naturalWidth)
scaleY(img, props) == divide(props.maxDisplayHeight, img.naturalHeight)

\* a variant of scale that forgets the 1 of Math.min(scaleX, scaleY, 1)
scaleWithoutCap(img, props) == min(scaleX(img, props), scaleY(img, props))

\* scale = Math.min(scaleX, scaleY, 1)
scale(img, props) == min(min(scaleX(img, props), scaleY(img, props)), number(1))

\* displayWidth = image.naturalWidth * scale
displayWidth(img, props) == multiply(img.naturalWidth, scale(img, props))

\* a variant of displayHeight that scales the height by scaleY alone
displayHeightByScaleY(img, props) ==
    multiply(img.naturalHeight, min(scaleY(img, props), number(1)))

\* displayHeight = image.naturalHeight * scale
displayHeight(img, props) == multiply(img.naturalHeight, scale(img, props))

\* a variant of the strokes drawn that includes a current path of one point
strokesDrawnAnyLength(s) ==
    SelectSeq(s.drawingPaths, LAMBDA path : Len(path) >= 2)
        \o (IF s.isDrawing /\ Len(s.currentPath) > 0 THEN <<s.currentPath>> ELSE <<>>)

\* the strokes the draw effect strokes: the committed paths of two points or
\* more, then the current path if drawing and longer than one point
strokesDrawn(s) ==
    SelectSeq(s.drawingPaths, LAMBDA path : Len(path) >= 2)
        \o (IF s.isDrawing /\ Len(s.currentPath) > 1 THEN <<s.currentPath>> ELSE <<>>)

\* the canvas after the draw effect of a render with state s: the placeholder
\* without an image, else the image at display size under the strokes
draw(s, sizes, props) ==
    IF s.image = NoImage
    THEN [width |-> props.maxDisplayWidth,
          height |-> IF props.maxDisplayHeight > 200 THEN props.maxDisplayHeight ELSE 200,
          image |-> NoImage, strokes |-> <<>>]
    ELSE [width |-> truncate(displayWidth(sizes[s.image], props)),
          height |-> truncate(displayHeight(sizes[s.image], props)),
          image |-> s.image, strokes |-> strokesDrawn(s)]

\* canvas.toDataURL("image/png"): the PNG encoding of the canvas, or "data:,"
\* (no data) for a canvas without pixels
toDataURL(canvas) ==
    IF canvas.width = 0 \/ canvas.height = 0 THEN <<>> ELSE <<canvas>>

\* getAnnotatedImageDataUrl of the render with state s: null without an image,
\* else the data URL of the canvas
getAnnotatedImageDataUrl(s, canvas) ==
    IF s.image = NoImage THEN [null |-> TRUE, data |-> <<>>]
    ELSE [null |-> FALSE, data |-> toDataURL(canvas)]

\* canvas.width !== displayWidth is false: the integer n is the double d
sameNumber(n, d) == n > 0 /\ d = number(n)

\* what one painting call leaves on the canvas
Paint(op, img, path) == [op |-> op, image |-> img, path |-> path]

\* a canvas element before anything is drawn on it
BlankCanvas == [width |-> 300, height |-> 150, layers |-> <<>>]

\* a variant of clearRect that clears nothing
clearRectNothing(layers) == layers

\* ctx.clearRect(0, 0, canvas.width, canvas.height): nothing painted is left
clearRect(layers) == <<>>

\* ctx.fillRect(0, 0, canvas.width, canvas.height) with an opaque fillStyle:
\* the fill hides whatever was painted before
fillRect(layers) == <<Paint("fillRect", NoImage, <<>>)>>

\* one run of the draw effect, for a render with state s, on a canvas: its
\* dimensions afterwards and the painting calls that make up its raster.
\* Assigning canvas.width or canvas.height clears the canvas.
drawEffect(canvas, s, sizes, props) ==
    IF s.image = NoImage
    THEN LET placeholderWidth == props.maxDisplayWidth
             placeholderHeight ==
                 IF props.maxDisplayHeight > 200 THEN props.maxDisplayHeight ELSE 200
             resized == canvas.width # placeholderWidth \/ canvas.height # placeholderHeight
         IN  [width |-> placeholderWidth, height |-> placeholderHeight,
              layers |-> Append(fillRect(IF resized THEN <<>> ELSE canvas.layers),
                                Paint("fillText", NoImage, <<>>))]
    ELSE LET dw == displayWidth(sizes[s.image], props)
             dh == displayHeight(sizes[s.image], props)
             resized == ~sameNumber(canvas.width, dw) \/ ~sameNumber(canvas.height, dh)
         IN  [width |-> IF resized THEN truncate(dw) ELSE canvas.width,
              height |-> IF resized THEN truncate(dh) ELSE canvas.height,
              layers |-> (IF resized THEN <<>> ELSE clearRect(canvas.layers))
                             \o <<Paint("drawImage", s.image, <<>>)>>
                             \o [i \in 1..Len(strokesDrawn(s)) |->
                                     Paint("stroke", NoImage, strokesDrawn(s)[i])]]

-----------------------------------------------------------------------------
(* ImageUploader: the files a user can select or drop, and its handlers as  *)
(* functions of the event's file list. A string that the code takes apart   *)
(* (a MIME type, image data, an error message) is a sequence of its parts.  *)

NoName == "null"

File(name, type) == [name |-> name, type |-> type]

\* files with an image type, another type, no type, and a type that starts
\* with "image" but not with "image/"
Files == {File("photo.png", <<"image", "/", "png">>),
          File("anim.gif", <<"image", "/", "gif">>),
          File("paper.pdf", <<"application", "/", "pdf">>),
          File("README", <<>>),
          File("scan.img", <<"image">>)}

\* event.target.files / event.dataTransfer.files: no file, one, or two
FileLists ==
    {<<>>} \cup {<<f>> : f \in Files}
           \cup {<<f, g>> : f \in {File("photo.png", <<"image", "/", "png">>),
                                   File("paper.pdf", <<"application", "/", "pdf">>)},
                            g \in Files}

\* String.prototype.startsWith
startsWith(str, prefix) ==
    Len(str) >= Len(prefix) /\ SubSeq(str, 1, Len(prefix)) = prefix

PleaseSelect == "Please select a valid image file (e.g., PNG, JPG, GIF)."

\* what a handler of the uploader did: the state it set, and its calls of
\* onImageUpload and alert
Handling(name, val, uploads, alerts) ==
    [fileName |-> name, value |-> val, onImageUpload |-> uploads, alert |-> alerts]

\* a variant of handleFileChange that leaves the file name as it was when the
\* file is not an image
handleFileChangeKeepingName(name, files) ==
    IF files = <<>>
    THEN Handling(name, "", <<>>, <<>>)
    ELSE IF startsWith(files[1].type, <<"image", "/">>)
         THEN Handling(files[1].name, files[1].name, <<files[1]>>, <<>>)
         ELSE Handling(name, "", <<>>, <<PleaseSelect>>)

\* handleFileChange, on the change event of the input that now holds files:
\* the first file is uploaded and named if its type starts with "image/";
\* otherwise alert, setFileName(null) and the input is emptied
handleFileChange(name, files) ==
    IF files = <<>>
    THEN Handling(name, "", <<>>, <<>>)
    ELSE IF startsWith(files[1].type, <<"image", "/">>)
         THEN Handling(files[1].name, files[1].name, <<files[1]>>, <<>>)
         ELSE Handling(NoName, "", <<>>, <<PleaseSelect>>)

\* handleDrop: returns when disabled; otherwise as handleFileChange, leaving
\* the input as it is
\* a variant of handleDrop without its test of disabled
handleDropWhileDisabled(name, val, isDisabled, files) ==
    IF files = <<>>
    THEN Handling(name, val, <<>>, <<>>)
    ELSE IF startsWith(files[1].type, <<"image", "/">>)
         THEN Handling(files[1].name, val, <<files[1]>>, <<>>)
         ELSE Handling(NoName, val, <<>>, <<PleaseSelect>>)

handleDrop(name, val, isDisabled, files) ==
    IF isDisabled \/ files = <<>>
    THEN Handling(name, val, <<>>, <<>>)
    ELSE IF startsWith(files[1].type, <<"image", "/">>)
         THEN Handling(files[1].name, val, <<files[1]>>, <<>>)
         ELSE Handling(NoName, val, <<>>, <<PleaseSelect>>)

\* the record of an event on the uploader: the event and its files, disabled
\* and fileName when it arrived, and the handler's calls
Event(name, files, h) ==
    [op |-> name, files |-> files, disabled |-> disabled, fileName |-> fileName,
     onImageUpload |-> h.onImageUpload, alert |-> h.alert]

\* the uploader as mounted: no file name, enabled, nothing chosen
UploaderInit ==
    /\ fileName = NoName
    /\ disabled = FALSE
    /\ value = ""
    /\ chooser = FALSE
    /\ handled = [op |-> "mount", files |-> <<>>, disabled |-> FALSE,
                  fileName |-> NoName, onImageUpload |-> <<>>, alert |-> <<>>]

-----------------------------------------------------------------------------
(* geminiService, with the client that getGeminiClient creates on first use *)

\* API keys: none, and two keys
ApiKeys == {"", "key-1", "key-2"}

\* annotated image data: a data URL, text without a comma, nothing, a prefix
\* with nothing after its comma, nothing between the first two commas, and
\* text with two commas
ImageData == {<<"data:image/png;base64", ",", "iVBORw0KGgo=">>,
              <<"invalid-data">>,
              <<>>,
              <<"data:image/png;base64", ",">>,
              <<"a", ",", ",", "c">>,
              <<"a", ",", "b", ",", "c">>}

\* String.prototype.split: the parts of str between the separators
split(str, sep) ==
    LET at == {i \in 1..Len(str) : str[i] = sep}
        cut(k) == IF k = 0 THEN 0
                  ELSE IF k > Cardinality(at) THEN Len(str) + 1
                  ELSE CHOOSE i \in at : Cardinality({j \in at : j <= i}) = k
    IN  [k \in 1..(Cardinality(at) + 1) |-> SubSeq(str, cut(k - 1) + 1, cut(k) - 1)]

\* String.prototype.includes
includes(str, part) ==
    \E i \in 0..(Len(str) - Len(part)) : SubSeq(str, i + 1, i + Len(part)) = part

NotConfigured == <<"Gemini API key is not configured.">>
InvalidFormat == <<"Invalid image data format.">>
NoExplanation == <<"No explanation received from the API.">>
KeyNotValid == <<"API key not valid">>
InvalidKey == <<"Invalid API Key. Please check your configuration.">>
RequestFailed == <<"Gemini API request failed: ">>
UnknownError == <<"An unknown error occurred while communicating with the Gemini API.">>

\* how the promise of a call stands
Pending == [state |-> "pending", value |-> <<>>]
Resolved(text) == [state |-> "resolved", value |-> text]
Rejected(message) == [state |-> "rejected", value |-> message]

\* what generateContent and response.text() come to: a text, a thrown Error
\* with a message, or a rejection with something that is no Error
Response(kind, text) == [kind |-> kind, text |-> text]
NoResponse == Response("none", <<>>)
Responses ==
    {Response("text", <<"The marked region shows a cat.">>),
     Response("text", <<>>),
     Response("error", <<"[400] ", "API key not valid", ". Please pass a valid API key.">>),
     Response("error", <<"Network error">>),
     Response("error", <<>>),
     Response("other", <<>>)}

NoClient == [null |-> TRUE, apiKey |-> ""]

\* new GoogleGenAI({ apiKey })
GoogleGenAI(apiKey) == [null |-> FALSE, apiKey |-> apiKey]

\* getGeminiClient: the client kept in _ai, created on the first call
getGeminiClient(ai, apiKey) == IF ai.null THEN GoogleGenAI(apiKey) ELSE ai

\* a variant of the checks that tests the image data before the API key
getExplanationForImageRegionDataFirst(ai, data, apiKey) ==
    LET parts == split(data, ",")
    IN  IF Len(parts) < 2 \/ parts[2] = <<>>
        THEN [result |-> Rejected(InvalidFormat), client |-> ai, requested |-> FALSE]
        ELSE IF apiKey = ""
        THEN [result |-> Rejected(NotConfigured), client |-> ai, requested |-> FALSE]
        ELSE [result |-> Pending, client |-> getGeminiClient(ai, apiKey),
              requested |-> TRUE]

\* getExplanationForImageRegion up to its await: the two checks, then the
\* client and the generateContent call
getExplanationForImageRegion(ai, data, apiKey) ==
    LET parts == split(data, ",")
    IN  IF apiKey = ""
        THEN [result |-> Rejected(NotConfigured), client |-> ai, requested |-> FALSE]
        ELSE IF Len(parts) < 2 \/ parts[2] = <<>>
        THEN [result |-> Rejected(InvalidFormat), client |-> ai, requested |-> FALSE]
        ELSE [result |-> Pending, client |-> getGeminiClient(ai, apiKey),
              requested |-> TRUE]

\* a variant of the catch block that reports every Error as a failed request
catchErrorWithoutKeyTest(thrown) ==
    IF thrown.kind = "error"
    THEN Rejected(RequestFailed \o thrown.text)
    ELSE Rejected(UnknownError)

\* the catch block
catchError(thrown) ==
    IF thrown.kind = "error"
    THEN IF includes(thrown.text, KeyNotValid)
         THEN Rejected(InvalidKey)
         ELSE Rejected(RequestFailed \o thrown.text)
    ELSE Rejected(UnknownError)

\* a variant of the rest of the try block that returns whatever text it got
afterAwaitWithoutCheck(response) ==
    IF response.kind = "text"
    THEN Resolved(response.text)
    ELSE catchError(response)

\* getExplanationForImageRegion after its await: the rest of the try block,
\* whose throw on an empty explanation is caught by the catch block below it
afterAwait(response) ==
    IF response.kind = "text"
    THEN IF response.text = <<>>
         THEN catchError(Response("error", NoExplanation))
         ELSE Resolved(response.text)
    ELSE catchError(response)

\* the record of a step of the service
Step(name, data, apiKey, client, response, requested, result) ==
    [op |-> name, data |-> data, apiKey |-> apiKey, client |-> client,
     response |-> response, requested |-> requested, result |-> result]

\* the module as loaded: no client, no call made
ServiceInit ==
    /\ _ai = NoClient
    /\ requests = {}
    /\ outcome = Step("load", <<>>, "", NoClient, NoResponse, FALSE, Pending)

-----------------------------------------------------------------------------
(* The host App: its state besides uploadedFile (imageFile), hasMarkings    *)
(* and isLoading, which it passes to the uploader as disabled               *)

\* the record of a handler of the App: what it started from, and whether it
\* called the API
Act(name, requested) ==
    [op |-> name, requested |-> requested, isLoading |-> disabled, error |-> error,
     geminiResponse |-> geminiResponse, imageFile |-> imageFile,
     hasMarkings |-> hasMarkings]

\* the App as mounted, with an API key in its environment
HostInit ==
    /\ API_KEY = "key-1"
    /\ error = <<>>
    /\ geminiResponse = <<>>
    /\ learning = 0
    /\ act = [op |-> "mount", requested |-> FALSE, isLoading |-> FALSE, error |-> <<>>,
              geminiResponse |-> <<>>, imageFile |-> NoFile, hasMarkings |-> FALSE]

-----------------------------------------------------------------------------
(* Initial state: the component is mounted and its load effect has run once *)

Init ==
    /\ imageFile \in Sources \cup {NoFile}
    /\ image = NoImage
    /\ drawingPaths = <<>>
    /\ isDrawing = FALSE
    /\ currentPath = <<>>
    /\ loads = IF imageFile = NoFile THEN {}
               ELSE {[id |-> 1, src |-> imageFile, orphan |-> FALSE]}
    /\ nextReq = IF imageFile = NoFile THEN 1 ELSE 2
    /\ hasMarkings = FALSE
    /\ shown = [image |-> NoImage, drawingPaths |-> <<>>, isDrawing |-> FALSE,
                currentPath |-> <<>>]
    /\ natural = AppImages
    /\ maxDisplay = AppBounds
    /\ last = Op("mount", NoReq, IF imageFile = NoFile THEN <<FALSE>> ELSE <<>>)
    /\ pre = [image |-> NoImage, drawingPaths |-> <<>>, isDrawing |-> FALSE,
              currentPath |-> <<>>, hasMarkings |-> FALSE]
    /\ gesture = <<>>
    /\ UploaderInit
    /\ ServiceInit
    /\ HostInit

-----------------------------------------------------------------------------
(* The handlers, as functions of the component state they close over.      *)
(* Each yields the state after its setState calls and the values it        *)
(* passed to onSelectionChange.                                            *)

State == [image |-> image, drawingPaths |-> drawingPaths, isDrawing |-> isDrawing,
          currentPath |-> currentPath]

Result(s, notes) == [st |-> s, notify |-> notes]

\* the useState initial values: the state of a component not yet, or no
\* longer, mounted with a file
Unmounted == [image |-> NoImage, drawingPaths |-> <<>>, isDrawing |-> FALSE,
              currentPath |-> <<>>]

\* load effect, imageFile null: setImage(null); setDrawingPaths([]); onSelectionChange(false)
loadEffectNull(s) ==
    Result([s EXCEPT !.image = NoImage, !.drawingPaths = <<>>], <<FALSE>>)

\* a variant of img.onload that forgets setDrawingPaths([])
imgOnLoadKeepingPaths(s, src) ==
    Result([s EXCEPT !.image = src], <<FALSE>>)

\* img.onload: setImage(img); setDrawingPaths([]); onSelectionChange(false)
imgOnLoad(s, src) ==
    Result([s EXCEPT !.image = src, !.drawingPaths = <<>>], <<FALSE>>)

\* a variant of img.onerror that forgets setImage(null)
imgOnErrorKeepingImage(s) ==
    Result([s EXCEPT !.drawingPaths = <<>>], <<FALSE>>)

\* img.onerror: setImage(null); setDrawingPaths([]); onSelectionChange(false)
imgOnError(s) ==
    Result([s EXCEPT !.image = NoImage, !.drawingPaths = <<>>], <<FALSE>>)

\* a variant of handleInteractionStart that also starts the drawing afresh
handleInteractionStartDroppingPaths(s, rect, evt) ==
    IF s.image = NoImage \/ (evt.type = "mouse" /\ evt.button # 0)
    THEN Result(s, <<>>)
    ELSE Result([s EXCEPT !.isDrawing = TRUE, !.drawingPaths = <<>>,
                          !.currentPath = <<getMousePos(rect, evt)>>], <<>>)

\* a variant of handleInteractionStart that does not test image
handleInteractionStartWithoutImage(s, rect, evt) ==
    IF evt.type = "mouse" /\ evt.button # 0
    THEN Result(s, <<>>)
    ELSE Result([s EXCEPT !.isDrawing = TRUE,
                          !.currentPath = <<getMousePos(rect, evt)>>], <<>>)

\* a variant of handleInteractionStart that forgets setCurrentPath([pos])
handleInteractionStartWithoutPoint(s, rect, evt) ==
    IF s.image = NoImage \/ (evt.type = "mouse" /\ evt.button # 0)
    THEN Result(s, <<>>)
    ELSE Result([s EXCEPT !.isDrawing = TRUE], <<>>)

\* handleInteractionStart: ignored without an image or for a non-primary mouse
\* button; otherwise setIsDrawing(true); setCurrentPath([pos])
handleInteractionStart(s, rect, evt) ==
    IF s.image = NoImage \/ (evt.type = "mouse" /\ evt.button # 0)
    THEN Result(s, <<>>)
    ELSE Result([s EXCEPT !.isDrawing = TRUE,
                          !.currentPath = <<getMousePos(rect, evt)>>], <<>>)

\* a variant of handleInteractionMove that puts the new point first
handleInteractionMovePrepending(s, rect, evt) ==
    IF ~s.isDrawing \/ s.image = NoImage
    THEN Result(s, <<>>)
    ELSE Result([s EXCEPT !.currentPath = <<getMousePos(rect, evt)>> \o s.currentPath],
                <<>>)

\* a variant of handleInteractionMove that does not test isDrawing
handleInteractionMoveWhileIdle(s, rect, evt) ==
    IF s.image = NoImage
    THEN Result(s, <<>>)
    ELSE Result([s EXCEPT !.currentPath = Append(s.currentPath, getMousePos(rect, evt))],
                <<>>)

\* handleInteractionMove: ignored unless drawing on an image; otherwise
\* setCurrentPath(prevPath => [...prevPath, pos])
handleInteractionMove(s, rect, evt) ==
    IF ~s.isDrawing \/ s.image = NoImage
    THEN Result(s, <<>>)
    ELSE Result([s EXCEPT !.currentPath = Append(s.currentPath, getMousePos(rect, evt))],
                <<>>)

\* a variant of handleInteractionEnd that commits a path of any length (> 0)
handleInteractionEndAnyLength(s) ==
    IF ~s.isDrawing \/ s.image = NoImage
    THEN Result(s, <<>>)
    ELSE IF Len(s.currentPath) > 0
         THEN LET newPaths == Append(s.drawingPaths, s.currentPath)
              IN  Result([s EXCEPT !.isDrawing = FALSE, !.drawingPaths = newPaths,
                                   !.currentPath = <<>>],
                         <<Len(newPaths) > 0>>)
         ELSE Result([s EXCEPT !.isDrawing = FALSE, !.currentPath = <<>>], <<>>)

\* handleInteractionEnd: ignored unless drawing on an image; otherwise
\* setIsDrawing(false); a path of more than one point is appended to
\* drawingPaths and reported; setCurrentPath([])
handleInteractionEnd(s) ==
    IF ~s.isDrawing \/ s.image = NoImage
    THEN Result(s, <<>>)
    ELSE IF Len(s.currentPath) > 1
         THEN LET newPaths == Append(s.drawingPaths, s.currentPath)
              IN  Result([s EXCEPT !.isDrawing = FALSE, !.drawingPaths = newPaths,
                                   !.currentPath = <<>>],
                         <<Len(newPaths) > 0>>)
         ELSE Result([s EXCEPT !.isDrawing = FALSE, !.currentPath = <<>>], <<>>)

\* a variant of clearSelection that also calls setImage(null)
clearSelectionDroppingImage(s) ==
    Result([s EXCEPT !.image = NoImage, !.drawingPaths = <<>>, !.currentPath = <<>>,
                     !.isDrawing = FALSE],
           <<FALSE>>)

\* a variant of clearSelection that forgets setIsDrawing(false)
clearSelectionKeepingDrawing(s) ==
    Result([s EXCEPT !.drawingPaths = <<>>, !.currentPath = <<>>], <<FALSE>>)

\* clearSelection: setDrawingPaths([]); setCurrentPath([]); setIsDrawing(false);
\* onSelectionChange(false)
clearSelection(s) ==
    Result([s EXCEPT !.drawingPaths = <<>>, !.currentPath = <<>>, !.isDrawing = FALSE],
           <<FALSE>>)

-----------------------------------------------------------------------------
(* Actions *)

\* every state change has been rendered and drawn
Rendered == shown = State

\* the setState calls of a handler take effect, onSelectionChange reaches the
\* host, and the step is recorded
Apply(name, req, r) ==
    /\ image' = r.st.image
    /\ drawingPaths' = r.st.drawingPaths
    /\ isDrawing' = r.st.isDrawing
    /\ currentPath' = r.st.currentPath
    /\ hasMarkings' = IF r.notify = <<>> THEN hasMarkings ELSE r.notify[Len(r.notify)]
    /\ last' = Op(name, req, r.notify)
    /\ pre' = Snapshot
    /\ UNCHANGED <<natural, maxDisplay>>

\* a step of the display alone: the uploader, the service and the rest of the
\* host stay as they are
Update(name, req, r) ==
    /\ Apply(name, req, r)
    /\ UNCHANGED <<uploaderVars, serviceVars, hostVars>>

\* a handler that the browser dispatches: it runs on a rendered component, and
\* React renders and runs the draw effect before anything else happens
Commit(name, req, r) ==
    /\ Rendered
    /\ Update(name, req, r)
    /\ shown' = r.st

\* a pointer-down that the recorder is specified to ignore: a mouse button other
\* than the primary one, or a touch start whose event carries a further contact
\* while the first contact is drawing
IsSecondary(s, evt) ==
    \/ evt.type = "mouse" /\ evt.button # 0
    \/ evt.type = "touch" /\ Len(evt.touches) > 1 /\ s.isDrawing

\* the host supplies a new, non-null imageFile: the load effect starts a FileReader
SetImageFile(f) ==
    /\ f \in Sources
    /\ f # imageFile
    /\ nextReq <= MaxLoads
    /\ imageFile' = f
    /\ loads' = loads \cup {[id |-> nextReq, src |-> f, orphan |-> FALSE]}
    /\ nextReq' = nextReq + 1
    /\ Commit("SetImageFile", [id |-> nextReq, src |-> f, orphan |-> FALSE],
              Result(State, <<>>))
    /\ gesture' = <<>>

\* the host supplies null: the load effect takes its else branch
SetImageFileNull ==
    /\ imageFile # NoFile
    /\ imageFile' = NoFile
    /\ Commit("SetImageFileNull", NoReq, loadEffectNull(State))
    /\ gesture' = <<>>
    /\ UNCHANGED <<loads, nextReq>>

\* the read fails: the FileReader has no onerror handler, the request ends
ReaderOnError(r) ==
    /\ r \in loads
    /\ loads' = loads \ {r}
    /\ Commit("ReaderOnError", r, Result(State, <<>>))
    /\ gesture' = <<>>
    /\ UNCHANGED <<imageFile, nextReq>>

\* reader.onload, then img.onload, for a request whose source decodes
ImgOnLoad(r) ==
    /\ r \in loads
    /\ ~r.orphan
    /\ r.src \in Decodable
    /\ loads' = loads \ {r}
    /\ Commit("ImgOnLoad", r, imgOnLoad(State, r.src))
    /\ gesture' = <<>>
    /\ UNCHANGED <<imageFile, nextReq>>

\* reader.onload, then img.onerror, for a request whose source does not decode
ImgOnError(r) ==
    /\ r \in loads
    /\ ~r.orphan
    /\ r.src \notin Decodable
    /\ loads' = loads \ {r}
    /\ Commit("ImgOnError", r, imgOnError(State))
    /\ gesture' = <<>>
    /\ UNCHANGED <<imageFile, nextReq>>

\* img.onload or img.onerror of a request whose component instance is
\* unmounted: its setState calls do nothing, onSelectionChange(false) is called
OrphanCompletes(r) ==
    /\ r \in loads
    /\ r.orphan
    /\ loads' = loads \ {r}
    /\ Commit("OrphanCompletes", r, Result(State, <<FALSE>>))
    /\ gesture' = <<>>
    /\ UNCHANGED <<imageFile, nextReq>>

\* the host's handleClear: setUploadedFile(null), setHasMarkings(false),
\* clearSelection(); the component is unmounted with the next render
HandleClear ==
    /\ imageFile # NoFile
    /\ imageFile' = NoFile
    /\ loads' = {[r EXCEPT !.orphan = TRUE] : r \in loads}
    /\ Commit("handleClear", NoReq, Result(Unmounted, <<FALSE>>))
    /\ gesture' = <<>>
    /\ UNCHANGED nextReq

\* onMouseDown / onTouchStart
InteractionStart(rect, evt) ==
    /\ Points(handleInteractionStart(State, rect, evt).st) <= MaxPoints
    /\ Commit(IF IsSecondary(State, evt) THEN "StartSecondary" ELSE "Start", NoReq,
              handleInteractionStart(State, rect, evt))
    /\ gesture' = IF image # NoImage /\ ~isDrawing /\ ~IsSecondary(State, evt)
                     /\ handleInteractionStart(State, rect, evt).st.isDrawing
                  THEN <<getMousePos(rect, evt)>> ELSE <<>>
    /\ UNCHANGED <<imageFile, loads, nextReq>>

\* onMouseMove / onTouchMove
InteractionMove(rect, evt) ==
    /\ Points(handleInteractionMove(State, rect, evt).st) <= MaxPoints
    /\ Commit("Move", NoReq, handleInteractionMove(State, rect, evt))
    /\ gesture' = IF gesture # <<>> /\ last.op \in {"Start", "Move"}
                  THEN Append(gesture, getMousePos(rect, evt)) ELSE <<>>
    /\ UNCHANGED <<imageFile, loads, nextReq>>

\* onMouseUp / onMouseLeave / onTouchEnd
InteractionEnd ==
    /\ Commit("End", NoReq, handleInteractionEnd(State))
    /\ gesture' = IF last.op \in {"Start", "Move"} THEN gesture ELSE <<>>
    /\ UNCHANGED <<imageFile, loads, nextReq>>

\* the host calls clearSelection through the ref; React renders later
ClearSelection ==
    /\ Update("clearSelection", NoReq, clearSelection(State))
    /\ gesture' = <<>>
    /\ UNCHANGED <<imageFile, loads, nextReq, shown>>

\* React renders the state that clearSelection set and runs the draw effect
Render ==
    /\ ~Rendered
    /\ shown' = State
    /\ UNCHANGED <<imageFile, image, drawingPaths, isDrawing, currentPath, loads,
                   nextReq, hasMarkings, natural, maxDisplay, last, pre, gesture,
                   uploaderVars, serviceVars, hostVars>>

Next ==
    \/ \E f \in Sources : SetImageFile(f)
    \/ SetImageFileNull
    \/ \E r \in loads : ReaderOnError(r)
    \/ \E r \in loads : ImgOnLoad(r)
    \/ \E r \in loads : ImgOnError(r)
    \/ \E r \in loads : OrphanCompletes(r)
    \/ HandleClear
    \/ \E rect \in Rects, evt \in PointerEvents : InteractionStart(rect, evt)
    \/ \E rect \in Rects, evt \in MoveEvents : InteractionMove(rect, evt)
    \/ InteractionEnd
    \/ ClearSelection
    \/ Render

Spec == Init /\ [][Next]_vars

-----------------------------------------------------------------------------
(* The display of one image: a component mounted with a file whose image    *)
(* has any of the natural sizes, under any of the display bounds, which     *)
(* the host may change while the component is mounted.                      *)

\* the host renders the component with other maxDisplayWidth / maxDisplayHeight
\* props: the draw effect runs again
SetMaxDisplay(b) ==
    /\ b # maxDisplay
    /\ Rendered
    /\ maxDisplay' = b
    /\ last' = Op("SetMaxDisplay", NoReq, <<>>)
    /\ pre' = Snapshot
    /\ gesture' = <<>>
    /\ UNCHANGED <<imageFile, image, drawingPaths, isDrawing, currentPath, loads,
                   nextReq, hasMarkings, shown, natural, uploaderVars, serviceVars,
                   hostVars>>

ScaleInit ==
    /\ imageFile \in Decodable
    /\ image = NoImage
    /\ drawingPaths = <<>>
    /\ isDrawing = FALSE
    /\ currentPath = <<>>
    /\ loads = {[id |-> 1, src |-> imageFile, orphan |-> FALSE]}
    /\ nextReq = 2
    /\ hasMarkings = FALSE
    /\ shown = Unmounted
    /\ \E size \in NaturalSizes : natural = [src \in Decodable |-> size]
    /\ maxDisplay \in DisplayBounds
    /\ last = Op("mount", NoReq, <<>>)
    /\ pre = [image |-> NoImage, drawingPaths |-> <<>>, isDrawing |-> FALSE,
              currentPath |-> <<>>, hasMarkings |-> FALSE]
    /\ gesture = <<>>
    /\ UploaderInit
    /\ ServiceInit
    /\ HostInit

ScaleNext ==
    \/ \E r \in loads : ReaderOnError(r)
    \/ \E r \in loads : ImgOnLoad(r)
    \/ \E b \in DisplayBounds : SetMaxDisplay(b)

ScaleSpec == ScaleInit /\ [][ScaleNext]_vars

-----------------------------------------------------------------------------
(* A host that does not keep its callback: the component as in Spec, under  *)
(* a host that may pass another onSelectionChange function with a render.   *)

\* the host renders with a new onSelectionChange function and the same
\* imageFile: onSelectionChange is a dependency of the load effect, which runs
\* again, starting a FileReader for the file or taking its else branch
SetOnSelectionChange ==
    /\ imageFile # NoFile => nextReq <= MaxLoads
    /\ IF imageFile # NoFile
       THEN /\ loads' = loads \cup {[id |-> nextReq, src |-> imageFile, orphan |-> FALSE]}
            /\ nextReq' = nextReq + 1
            /\ Commit("SetOnSelectionChange",
                      [id |-> nextReq, src |-> imageFile, orphan |-> FALSE],
                      Result(State, <<>>))
       ELSE /\ Commit("SetOnSelectionChange", NoReq, loadEffectNull(State))
            /\ UNCHANGED <<loads, nextReq>>
    /\ gesture' = <<>>
    /\ UNCHANGED imageFile

CallbackNext ==
    \/ Next
    \/ SetOnSelectionChange

CallbackSpec == Init /\ [][CallbackNext]_vars

-----------------------------------------------------------------------------
(* The component under a browser that ends every read and every decoding   *)
(* (a FileReader fires load or error, an Image fires load or error), and    *)
(* under React, which renders every state change.  A completion waits for  *)
(* the render that is due and is dispatched after it, however often the     *)
(* host calls clearSelection: hence the strong fairness.                    *)

\* some load request in flight comes to its end
LoadEnds ==
    \E r \in loads : ReaderOnError(r) \/ ImgOnLoad(r) \/ ImgOnError(r) \/ OrphanCompletes(r)

LiveSpec == Init /\ [][Next]_vars /\ SF_vars(LoadEnds) /\ WF_vars(Render)

-----------------------------------------------------------------------------
(* The page before a file is uploaded: the display is not mounted *)

PageInit ==
    /\ imageFile = NoFile
    /\ Init

-----------------------------------------------------------------------------
(* The uploader on its own: a user clicks, chooses and drops files while    *)
(* the host enables and disables it.                                        *)

displayVars == <<imageFile, image, drawingPaths, isDrawing, currentPath, loads, nextReq,
                 hasMarkings, shown, natural, maxDisplay, last, pre, gesture>>

\* the host renders the uploader with another value of disabled
SetDisabled(b) ==
    /\ b # disabled
    /\ disabled' = b
    /\ handled' = Event("SetDisabled", <<>>, Handling(fileName, value, <<>>, <<>>))
    /\ UNCHANGED <<fileName, value, chooser, displayVars, serviceVars, hostVars>>

\* a click on the label, which activates the input it is for: the browser
\* opens the file chooser unless the input is disabled
LabelClick ==
    /\ chooser' = (chooser \/ ~disabled)
    /\ handled' = Event("click", <<>>, Handling(fileName, value, <<>>, <<>>))
    /\ UNCHANGED <<fileName, disabled, value, displayVars, serviceVars, hostVars>>

\* the user closes the chooser: with other files than the input holds the
\* browser fires change and handleFileChange runs, with none or the same
\* nothing happens
ChooserClosed(files) ==
    /\ chooser
    /\ chooser' = FALSE
    /\ IF files = <<>> \/ files[1].name = value
       THEN /\ handled' = Event("cancel", <<>>, Handling(fileName, value, <<>>, <<>>))
            /\ UNCHANGED <<fileName, value>>
       ELSE /\ fileName' = handleFileChange(fileName, files).fileName
            /\ value' = handleFileChange(fileName, files).value
            /\ handled' = Event("change", files, handleFileChange(fileName, files))
    /\ UNCHANGED <<disabled, displayVars, serviceVars, hostVars>>

\* onDragOver: preventDefault and stopPropagation only
HandleDragOver ==
    /\ handled' = Event("dragover", <<>>, Handling(fileName, value, <<>>, <<>>))
    /\ UNCHANGED <<fileName, disabled, value, chooser, displayVars, serviceVars, hostVars>>

\* onDrop on the label
HandleDrop(files) ==
    /\ fileName' = handleDrop(fileName, value, disabled, files).fileName
    /\ handled' = Event("drop", files, handleDrop(fileName, value, disabled, files))
    /\ UNCHANGED <<disabled, value, chooser, displayVars, serviceVars, hostVars>>

\* a click on "Clear uploaded file", rendered while there is a file name; a
\* disabled button gets no click
ClearClick ==
    /\ fileName # NoName
    /\ fileName' = IF disabled THEN fileName ELSE NoName
    /\ value' = IF disabled THEN value ELSE ""
    /\ handled' = Event("clear", <<>>, Handling(fileName', value', <<>>, <<>>))
    /\ UNCHANGED <<disabled, chooser, displayVars, serviceVars, hostVars>>

UploaderNext ==
    \/ \E b \in BOOLEAN : SetDisabled(b)
    \/ LabelClick
    \/ \E files \in FileLists : ChooserClosed(files)
    \/ HandleDragOver
    \/ \E files \in FileLists : HandleDrop(files)
    \/ ClearClick

UploaderSpec == PageInit /\ [][UploaderNext]_vars

-----------------------------------------------------------------------------
(* The service on its own: calls with any data and key, the API's           *)
(* responses in any order, and the reset of the client.                     *)

\* a call of getExplanationForImageRegion(data, apiKey), up to its await
Call(data, apiKey) ==
    LET call == getExplanationForImageRegion(_ai, data, apiKey)
    IN  /\ _ai' = call.client
        /\ requests' = IF call.requested
                       THEN requests \cup {[data |-> data, apiKey |-> apiKey,
                                            client |-> call.client]}
                       ELSE requests
        /\ outcome' = Step("call", data, apiKey, call.client, NoResponse,
                           call.requested, call.result)
        /\ UNCHANGED <<displayVars, uploaderVars, hostVars>>

\* the API answers a request, or fails, and the call goes on after its await
Respond(request, response) ==
    /\ request \in requests
    /\ requests' = requests \ {request}
    /\ outcome' = Step("respond", request.data, request.apiKey, request.client,
                       response, TRUE, afterAwait(response))
    /\ UNCHANGED <<_ai, displayVars, uploaderVars, hostVars>>

\* __test.reset
Reset ==
    /\ _ai' = NoClient
    /\ outcome' = Step("reset", <<>>, "", NoClient, NoResponse, FALSE, Pending)
    /\ UNCHANGED <<requests, displayVars, uploaderVars, hostVars>>

ServiceNext ==
    \/ \E data \in ImageData, apiKey \in ApiKeys : Call(data, apiKey)
    \/ \E request \in requests, response \in Responses : Respond(request, response)
    \/ Reset

ServiceSpec == PageInit /\ [][ServiceNext]_vars

-----------------------------------------------------------------------------
(* The App (src/unnamed/part_001): uploader, display and service together.  *)
(* uploadedFile is the display's imageFile, isLoading the uploader's        *)
(* disabled.  A handler runs to its end or to its await in one step, the    *)
(* render included.  While the browser's file chooser is open the page      *)
(* takes no other input from the user; loads and API calls go on.           *)

isLoading == disabled

\* the files of the App's user: two images and a document
AppFileLists == {<<File("photo.png", <<"image", "/", "png">>)>>,
                 <<File("anim.gif", <<"image", "/", "gif">>)>>,
                 <<File("paper.pdf", <<"application", "/", "pdf">>)>>}

AppImageLists == {files \in AppFileLists : startsWith(files[1].type, <<"image", "/">>)}

\* the pointer of the App's user: a mouse with its left button
AppEvents == {e \in MouseEvents : e.button = 0 /\ e.clientX = 50}

\* the source that a file is for the display
sourceOf(file) == IF file.name = "photo.png" THEN "A" ELSE "B"

\* the messages that handleLearn passes to setError
AppErrors ==
    [keyMissing |-> <<"API Key is missing. Please configure it in your environment.">>,
     uploadFirst |-> <<"Please upload an image first.">>,
     markFirst |-> <<"Please mark or underline the area on the image to learn about.">>,
     notReady |-> <<"Image display component is not ready.">>,
     noImageData |->
         <<"Could not get annotated image data. Please try re-marking the area.">>,
     invalidKey |-> <<"Invalid API Key. Please check your API_KEY environment variable.">>,
     failed |-> <<"Failed to get explanation: ">>]

\* canvas.toDataURL("image/png") as the string that the service takes apart
dataUrl(exported) ==
    IF exported.data = <<>>
    THEN <<"data:", ",">>
    ELSE <<"data:image/png;base64", ",", "iVBORw0KGgo=">>

\* a variant of handleLearn's checks that does not test the API key
handleLearnWithoutKeyTest(key, file, marks, mounted, exported) ==
    IF file = NoFile THEN [started |-> FALSE, error |-> AppErrors.uploadFirst]
    ELSE IF ~marks THEN [started |-> FALSE, error |-> AppErrors.markFirst]
    ELSE IF ~mounted THEN [started |-> FALSE, error |-> AppErrors.notReady]
    ELSE IF exported.null THEN [started |-> FALSE, error |-> AppErrors.noImageData]
    ELSE [started |-> TRUE, error |-> <<>>]

\* handleLearn up to setIsLoading(true): its five checks, each with its
\* setError and return
handleLearn(key, file, marks, mounted, exported) ==
    IF key = "" THEN [started |-> FALSE, error |-> AppErrors.keyMissing]
    ELSE IF file = NoFile THEN [started |-> FALSE, error |-> AppErrors.uploadFirst]
    ELSE IF ~marks THEN [started |-> FALSE, error |-> AppErrors.markFirst]
    ELSE IF ~mounted THEN [started |-> FALSE, error |-> AppErrors.notReady]
    ELSE IF exported.null THEN [started |-> FALSE, error |-> AppErrors.noImageData]
    ELSE [started |-> TRUE, error |-> <<>>]

\* handleLearn's catch block: the message it passes to setError
learnFailed(message) ==
    IF includes(message, KeyNotValid)
    THEN AppErrors.invalidKey
    ELSE AppErrors.failed \o message

\* a variant of the rest of handleLearn without its finally block
LearnSettledWithoutFinally(result) ==
    /\ IF result.state = "resolved"
       THEN geminiResponse' = result.value /\ UNCHANGED error
       ELSE error' = learnFailed(result.value) /\ UNCHANGED geminiResponse
    /\ UNCHANGED disabled

\* the rest of handleLearn once the call of the service has settled:
\* setGeminiResponse or setError, then setIsLoading(false)
LearnSettled(result) ==
    /\ IF result.state = "resolved"
       THEN geminiResponse' = result.value /\ UNCHANGED error
       ELSE error' = learnFailed(result.value) /\ UNCHANGED geminiResponse
    /\ disabled' = FALSE

\* a click on Learn About Markings, enabled with a file and markings while not
\* loading: handleLearn to its await, or to its end if it returns early or
\* the service rejects the call at once
HandleLearn ==
    /\ ~chooser
    /\ imageFile # NoFile /\ hasMarkings /\ ~isLoading
    /\ Rendered
    /\ \E exported \in {getAnnotatedImageDataUrl(shown, draw(shown, natural, maxDisplay))} :
       \E learn \in {handleLearn(API_KEY, imageFile, hasMarkings, imageFile # NoFile, exported)} :
       \E call \in {getExplanationForImageRegion(_ai, dataUrl(exported), API_KEY)} :
          IF ~learn.started
          THEN /\ error' = learn.error
               /\ act' = Act("handleLearn", FALSE)
               /\ UNCHANGED <<geminiResponse, disabled, learning, serviceVars>>
          ELSE IF ~call.requested
          THEN /\ error' = learnFailed(call.result.value)
               /\ geminiResponse' = <<>>
               /\ _ai' = call.client
               /\ outcome' = Step("call", dataUrl(exported), API_KEY, call.client,
                                  NoResponse, FALSE, call.result)
               /\ act' = Act("handleLearn", FALSE)
               /\ UNCHANGED <<disabled, learning, requests>>
          ELSE /\ error' = <<>>
               /\ geminiResponse' = <<>>
               /\ disabled' = TRUE
               /\ learning' = learning + 1
               /\ _ai' = call.client
               /\ requests' = requests \cup {[data |-> dataUrl(exported), apiKey |-> API_KEY,
                                              client |-> call.client]}
               /\ outcome' = Step("call", dataUrl(exported), API_KEY, call.client,
                                  NoResponse, TRUE, call.result)
               /\ act' = Act("handleLearn", TRUE)
    /\ UNCHANGED <<displayVars, fileName, value, chooser, handled, API_KEY>>

\* the API answers the request of a call of handleLearn, or fails; the service
\* resolves or rejects the call and handleLearn goes on after its await
LearnResponds(request, response) ==
    /\ request \in requests
    /\ learning > 0
    /\ requests' = requests \ {request}
    /\ learning' = learning - 1
    /\ outcome' = Step("respond", request.data, request.apiKey, request.client,
                       response, TRUE, afterAwait(response))
    /\ LearnSettled(afterAwait(response))
    /\ act' = Act("learnSettled", FALSE)
    /\ UNCHANGED <<displayVars, fileName, value, chooser, handled, _ai, API_KEY>>

\* handleImageUpload(file): the file goes to the display, whose load effect
\* starts a read; response, error and hasMarkings are reset; clearSelection
\* on the display if it is mounted
HandleImageUpload(file) ==
    /\ nextReq <= MaxLoads
    /\ Rendered
    /\ imageFile' = sourceOf(file)
    /\ loads' = loads \cup {[id |-> nextReq, src |-> sourceOf(file), orphan |-> FALSE]}
    /\ nextReq' = nextReq + 1
    /\ Apply("handleImageUpload", [id |-> nextReq, src |-> sourceOf(file), orphan |-> FALSE],
             IF imageFile = NoFile
             THEN Result(Unmounted, <<FALSE>>)
             ELSE clearSelection(State))
    /\ shown' = IF imageFile = NoFile THEN Unmounted ELSE clearSelection(State).st
    /\ gesture' = <<>>
    /\ geminiResponse' = <<>>
    /\ error' = <<>>
    /\ act' = Act("handleImageUpload", FALSE)
    /\ UNCHANGED <<learning, API_KEY, serviceVars>>

\* an event of the uploader whose handler did h: the uploader's state, and
\* the host's handleImageUpload for the file it passed to onImageUpload
Uploaded(name, files, h) ==
    /\ fileName' = h.fileName
    /\ value' = h.value
    /\ handled' = Event(name, files, h)
    /\ IF h.onImageUpload # <<>>
       THEN HandleImageUpload(h.onImageUpload[1])
       ELSE UNCHANGED <<displayVars, serviceVars, hostVars>>
    /\ UNCHANGED disabled

\* the user picks files in the chooser, or closes it
AppChooserClosed(files) ==
    /\ chooser
    /\ chooser' = FALSE
    /\ IF files = <<>> \/ files[1].name = value
       THEN Uploaded("cancel", <<>>, Handling(fileName, value, <<>>, <<>>))
       ELSE Uploaded("change", files, handleFileChange(fileName, files))

\* the user drops files on the uploader's label
AppDrop(files) ==
    /\ ~chooser
    /\ Uploaded("drop", files, handleDrop(fileName, value, disabled, files))
    /\ UNCHANGED chooser

\* a click on Clear All, disabled only while loading without a file:
\* handleClear, after which the display is unmounted
ClearAll ==
    /\ ~chooser
    /\ ~(isLoading /\ imageFile = NoFile)
    /\ Rendered
    /\ imageFile' = NoFile
    /\ loads' = {[r EXCEPT !.orphan = TRUE] : r \in loads}
    /\ Apply("handleClear", NoReq, Result(Unmounted, <<FALSE>>))
    /\ shown' = Unmounted
    /\ gesture' = <<>>
    /\ geminiResponse' = <<>>
    /\ error' = <<>>
    /\ act' = Act("handleClear", FALSE)
    /\ UNCHANGED <<nextReq, learning, API_KEY, uploaderVars, serviceVars>>

\* the user's pointer on the canvas, which is there while a file is uploaded
AppPointer ==
    /\ ~chooser
    /\ imageFile # NoFile
    /\ \/ \E rect \in Rects, evt \in AppEvents : InteractionStart(rect, evt)
       \/ \E rect \in Rects, evt \in AppEvents : InteractionMove(rect, evt)
       \/ InteractionEnd

\* the user's clicks on the uploader: its label, which opens the chooser, and
\* its Clear uploaded file button
AppUploaderClick ==
    /\ ~chooser
    /\ (LabelClick \/ ClearClick)

AppInit ==
    /\ imageFile = NoFile
    /\ image = NoImage
    /\ drawingPaths = <<>>
    /\ isDrawing = FALSE
    /\ currentPath = <<>>
    /\ loads = {}
    /\ nextReq = 1
    /\ hasMarkings = FALSE
    /\ shown = Unmounted
    /\ natural = AppImages
    /\ maxDisplay = AppBounds
    /\ last = Op("mount", NoReq, <<>>)
    /\ pre = [image |-> NoImage, drawingPaths |-> <<>>, isDrawing |-> FALSE,
              currentPath |-> <<>>, hasMarkings |-> FALSE]
    /\ gesture = <<>>
    /\ UploaderInit
    /\ ServiceInit
    /\ API_KEY \in {"", "key-1"}
    /\ error = <<>>
    /\ geminiResponse = <<>>
    /\ learning = 0
    /\ act = [op |-> "mount", requested |-> FALSE, isLoading |-> FALSE, error |-> <<>>,
              geminiResponse |-> <<>>, imageFile |-> NoFile, hasMarkings |-> FALSE]

\* the App with a user who drops image files on the uploader, one when the
\* read of the one before is over, draws, asks for explanations and clears
AppNext ==
    \/ loads = {} /\ \E files \in AppImageLists : AppDrop(files)
    \/ AppPointer
    \/ HandleLearn
    \/ \E request \in requests, response \in Responses : LearnResponds(request, response)
    \/ ClearAll
    \/ LoadEnds

AppSpec == AppInit /\ [][AppNext]_vars

\* the API settles every request: the promise that handleLearn awaits is
\* resolved or rejected in the end
ApiSettles ==
    \E request \in requests, response \in Responses : LearnResponds(request, response)

AppLiveSpec == AppInit /\ [][AppNext]_vars /\ WF_vars(ApiSettles)

\* the App with a user who picks files in the chooser or drops them, and
\* clears, without drawing
PageNext ==
    \/ AppUploaderClick
    \/ \E files \in AppFileLists \cup {<<>>} : AppChooserClosed(files)
    \/ \E files \in AppFileLists : AppDrop(files)
    \/ ClearAll
    \/ LoadEnds

PageSpec == AppInit /\ [][PageNext]_vars

-----------------------------------------------------------------------------
(* Drawing on one image: a component mounted with a file whose image has    *)
(* one of a few natural sizes, under either display bounds, is drawn on,    *)
(* cleared and given other bounds.                                          *)

\* natural sizes drawn on: scaled to whole pixels, and to a fraction of a pixel
DrawnSizes == {Size(2000, 1000), Size(1000, 333)}

DrawInit ==
    /\ imageFile \in Decodable
    /\ image = NoImage
    /\ drawingPaths = <<>>
    /\ isDrawing = FALSE
    /\ currentPath = <<>>
    /\ loads = {[id |-> 1, src |-> imageFile, orphan |-> FALSE]}
    /\ nextReq = 2
    /\ hasMarkings = FALSE
    /\ shown = Unmounted
    /\ \E size \in DrawnSizes : natural = [src \in Decodable |-> size]
    /\ maxDisplay \in DisplayBounds
    /\ last = Op("mount", NoReq, <<>>)
    /\ pre = [image |-> NoImage, drawingPaths |-> <<>>, isDrawing |-> FALSE,
              currentPath |-> <<>>, hasMarkings |-> FALSE]
    /\ gesture = <<>>
    /\ UploaderInit
    /\ ServiceInit
    /\ HostInit

DrawNext ==
    \/ \E r \in loads : ImgOnLoad(r)
    \/ \E rect \in Rects, evt \in PointerEvents : InteractionStart(rect, evt)
    \/ \E rect \in Rects, evt \in MoveEvents : InteractionMove(rect, evt)
    \/ InteractionEnd
    \/ ClearSelection
    \/ Render
    \/ \E b \in DisplayBounds : SetMaxDisplay(b)

DrawSpec == DrawInit /\ [][DrawNext]_vars

-----------------------------------------------------------------------------
(* Claims *)

\* the component state the latest operation started from
PreState == [image |-> pre.image, drawingPaths |-> pre.drawingPaths,
             isDrawing |-> pre.isDrawing, currentPath |-> pre.currentPath]

\* the latest step completed a load request (img.onload or img.onerror)
LoadCompleted == last.op \in {"ImgOnLoad", "ImgOnError"}

\* C1: the late completion of a load request that a later request for a
\* different source has superseded is ignored: with the currently requested
\* source already the bitmap, the earlier request's completion neither
\* replaces the bitmap nor clears the committed strokes.
C1_StaleCompletionIgnored ==
    (/\ LoadCompleted
     /\ last.req.id # LatestReq
     /\ imageFile \in Sources
     /\ pre.image = imageFile)
        => (image = pre.image /\ drawingPaths = pre.drawingPaths)

\* C2: the successful completion of a load leaves committedStrokes empty, makes
\* the loaded source the bitmap, and notifies the selection observer with false.
C2_LoadSuccessResets ==
    last.op = "ImgOnLoad"
        => /\ drawingPaths = <<>>
           /\ image = last.req.src
           /\ last.notify = <<FALSE>>
           /\ hasMarkings = FALSE

\* C2 witness: image A was the bitmap with a committed stroke when the load of
\* B completed.
C2_Witness ==
    /\ last.op = "ImgOnLoad"
    /\ last.req.src = "B"
    /\ pre.image = "A"
    /\ pre.drawingPaths # <<>>
    /\ pre.hasMarkings

\* C3: a load that completes successfully while the recorder is Drawing leaves
\* activeStroke empty and the recorder Idle.
C3_LoadSuccessClearsActiveStroke ==
    (last.op = "ImgOnLoad" /\ pre.isDrawing)
        => (currentPath = <<>> /\ ~isDrawing)

\* C4: a decode failure leaves no bitmap and no committed strokes, whatever
\* existed before, and the selection observer is told false.
C4_DecodeFailureResets ==
    last.op = "ImgOnError"
        => /\ image = NoImage
           /\ drawingPaths = <<>>
           /\ last.notify = <<FALSE>>
           /\ hasMarkings = FALSE

\* C4 witness: a bitmap with a committed stroke existed when the decode failed.
C4_Witness ==
    /\ last.op = "ImgOnError"
    /\ pre.image # NoImage
    /\ pre.drawingPaths # <<>>
    /\ pre.hasMarkings

\* C5: what the host is told on a decode failure differs from what it is told
\* on a successful load and on an explicit clear.
C5_DecodeFailureDistinguishable ==
    last.op = "ImgOnError"
        => /\ \A src \in Decodable : last.notify # imgOnLoad(PreState, src).notify
           /\ last.notify # clearSelection(PreState).notify

\* C6: an empty image source acts as a clear: no bitmap, no committed strokes,
\* no active stroke, the recorder Idle, selection-exists notified as false.
C6_NullSourceIsClear ==
    last.op = "SetImageFileNull"
        => /\ image = NoImage
           /\ drawingPaths = <<>>
           /\ currentPath = <<>>
           /\ ~isDrawing
           /\ last.notify = <<FALSE>>

\* C7: every committed stroke has at least 2 points, and ending a stroke that
\* recorded only its pointer-down point commits nothing and notifies nothing.
C7_CommittedStrokesHaveTwoPoints ==
    /\ \A i \in 1..Len(drawingPaths) : Len(drawingPaths[i]) >= 2
    /\ (last.op = "End" /\ Len(pre.currentPath) <= 1)
           => (drawingPaths = pre.drawingPaths /\ last.notify = <<>>)

\* C7 witness: with one stroke committed, a pointer-down was directly followed
\* by the pointer-up.
C7_Witness ==
    /\ last.op = "End"
    /\ Len(gesture) = 1
    /\ pre.isDrawing
    /\ pre.currentPath = gesture
    /\ Len(drawingPaths) = 1

\* C8: from Idle with a bitmap, pointer-down at p, pointer-move to the same p,
\* pointer-up commits no stroke and leaves selection-exists false.
C8_NoMovementCommitsNothing ==
    (last.op = "End" /\ Len(gesture) = 2 /\ gesture[1] = gesture[2])
        => /\ drawingPaths = pre.drawingPaths
           /\ last.notify = <<>>
           /\ hasMarkings = pre.hasMarkings

\* C9: from Idle with a bitmap, pointer-down at p0, moves to p1..pn (n >= 1) and
\* pointer-up append exactly the stroke <<p0, ..., pn>> to committedStrokes and
\* notify selection-exists = true.
C9_GestureCommitsItsPoints ==
    (last.op = "End" /\ Len(gesture) >= 2)
        => /\ drawingPaths = Append(pre.drawingPaths, gesture)
           /\ last.notify = <<TRUE>>
           /\ hasMarkings = TRUE

\* C9 witness: a gesture of three points, each unlike the one before it, was
\* committed from Idle on a bitmap.
C9_Witness ==
    /\ last.op = "End"
    /\ Len(gesture) = 3
    /\ gesture[1] # gesture[2]
    /\ gesture[2] # gesture[3]
    /\ pre.image # NoImage
    /\ drawingPaths = <<gesture>>

\* C10: clearSelection, from any state, leaves committedStrokes and activeStroke
\* empty, the recorder Idle, and notifies selection-exists = false.
C10_ClearResets ==
    last.op = "clearSelection"
        => /\ drawingPaths = <<>>
           /\ currentPath = <<>>
           /\ ~isDrawing
           /\ last.notify = <<FALSE>>
           /\ hasMarkings = FALSE

\* C10 witness: clearSelection was called while Drawing, with a stroke committed.
C10_Witness ==
    /\ last.op = "clearSelection"
    /\ pre.isDrawing
    /\ pre.currentPath # <<>>
    /\ pre.drawingPaths # <<>>

\* C13: after any sequence of operations, the value most recently passed to
\* onSelectionChange (the host's hasMarkings flag) says whether committedStrokes
\* is non-empty.
C13_HostFlagTracksStrokes ==
    hasMarkings = (drawingPaths # <<>>)

\* C14: a pointer-down from a secondary mouse button, or a touch start carrying
\* a contact beyond the first, leaves isDrawing, currentPath and drawingPaths
\* as they were, in every state.
C14_SecondaryPointerDownIgnored ==
    last.op = "StartSecondary" => State = PreState

\* C15: a pointer-up or pointer-leave received while Drawing leaves the recorder
\* Idle with activeStroke empty, whatever happened to the bitmap since the
\* pointer-down.
C15_EndAlwaysReturnsToIdle ==
    (last.op = "End" /\ pre.isDrawing) => (~isDrawing /\ currentPath = <<>>)

\* C16: in every reachable state activeStroke is non-empty exactly when the
\* recorder is Drawing.
C16_ActiveStrokeIffDrawing ==
    (currentPath # <<>>) <=> isDrawing

\* C16 witness: a pointer-move extended the stroke in progress to two points.
C16_Witness ==
    /\ last.op = "Move"
    /\ pre.isDrawing
    /\ isDrawing
    /\ Len(currentPath) = 2

\* C17: in every reachable state without a bitmap, committedStrokes and
\* activeStroke are empty and the recorder is Idle.
C17_NoBitmapNoStrokes ==
    image = NoImage => (drawingPaths = <<>> /\ currentPath = <<>> /\ ~isDrawing)

\* C18: a pointer-move, pointer-up or pointer-leave received while Idle changes
\* neither the bitmap nor committedStrokes nor activeStroke, and passes nothing
\* to onSelectionChange.
C18_IdleMoveAndEndAreNoOps ==
    (last.op \in {"Move", "End"} /\ ~pre.isDrawing)
        => /\ State = PreState
           /\ last.notify = <<>>
           /\ hasMarkings = pre.hasMarkings

\* C18 witness: a pointer-move arrived while Idle on a bitmap that has a
\* committed stroke.
C18_Witness ==
    /\ last.op = "Move"
    /\ ~pre.isDrawing
    /\ pre.image # NoImage
    /\ pre.drawingPaths # <<>>

\* what getAnnotatedImageDataUrl returns when called now: the ref's method and
\* the canvas are those of the latest render
Exported == getAnnotatedImageDataUrl(shown, draw(shown, natural, maxDisplay))

\* C11: in every reachable state getAnnotatedImageDataUrl returns null exactly
\* when no bitmap is loaded, and with a bitmap loaded what it returns is a
\* non-empty encoding.
C11_ExportEmptyIffNoBitmap ==
    /\ Exported.null <=> image = NoImage
    /\ image # NoImage => Exported.data # <<>>

\* C12: whenever getAnnotatedImageDataUrl is called with a bitmap loaded and the
\* recorder Idle, the raster it exports is the current bitmap under exactly the
\* current committedStrokes.
C12_ExportShowsCurrentStrokes ==
    (image # NoImage /\ ~isDrawing /\ Exported.data # <<>>)
        => /\ Exported.data[1].image = image
           /\ Exported.data[1].strokes = drawingPaths

\* the image shown and the canvas that the draw effect left
ShownImage == natural[shown.image]
Canvas == draw(shown, natural, maxDisplay)

\* the image fits the display bounds as it is
Fits(img, props) ==
    img.naturalWidth <= props.maxDisplayWidth /\ img.naturalHeight <= props.maxDisplayHeight

\* the scale is the least of scaleX, scaleY and 1
ScaleIsMin(img, props) ==
    LET sc == scale(img, props)
    IN  /\ sc \in {scaleX(img, props), scaleY(img, props), number(1)}
        /\ ~lessThan(scaleX(img, props), sc)
        /\ ~lessThan(scaleY(img, props), sc)
        /\ ~lessThan(number(1), sc)

\* C19 as stated: with scale = min(maxWidth/naturalWidth, maxHeight/naturalHeight, 1),
\* the display size (displayWidth, displayHeight) exceeds neither the bounds nor
\* the natural size, is the natural size when the image fits, and is 800 x 400
\* for a 2000 x 1000 image within 800 x 600.
C19_DisplaySizeWithinBounds ==
    shown.image # NoImage =>
        LET dw == displayWidth(ShownImage, maxDisplay)
            dh == displayHeight(ShownImage, maxDisplay)
        IN  /\ ScaleIsMin(ShownImage, maxDisplay)
            /\ ~lessThan(number(maxDisplay.maxDisplayWidth), dw)
            /\ ~lessThan(number(maxDisplay.maxDisplayHeight), dh)
            /\ ~lessThan(number(ShownImage.naturalWidth), dw)
            /\ ~lessThan(number(ShownImage.naturalHeight), dh)
            /\ Fits(ShownImage, maxDisplay)
                   => /\ dw = number(ShownImage.naturalWidth)
                      /\ dh = number(ShownImage.naturalHeight)
            /\ (ShownImage = Size(2000, 1000) /\ maxDisplay = DefaultBounds)
                   => (dw = number(800) /\ dh = number(400))

\* C19, amended: with scale = min(maxWidth/naturalWidth, maxHeight/naturalHeight, 1)
\* computed in floating point, the raster the canvas is allocated with (the
\* display size cut to whole pixels) exceeds neither the bounds nor the natural
\* size, is the natural size when the image fits, and is 800 x 400 for a
\* 2000 x 1000 image within 800 x 600.
C19_RasterWithinBounds ==
    shown.image # NoImage =>
        /\ ScaleIsMin(ShownImage, maxDisplay)
        /\ Canvas.width <= maxDisplay.maxDisplayWidth
        /\ Canvas.height <= maxDisplay.maxDisplayHeight
        /\ Canvas.width <= ShownImage.naturalWidth
        /\ Canvas.height <= ShownImage.naturalHeight
        /\ Fits(ShownImage, maxDisplay)
               => /\ Canvas.width = ShownImage.naturalWidth
                  /\ Canvas.height = ShownImage.naturalHeight
        /\ (ShownImage = Size(2000, 1000) /\ maxDisplay = DefaultBounds)
               => (Canvas.width = 800 /\ Canvas.height = 400)

\* C19 witness: a 1060 x 500 image is shown within 800 x 600: its computed
\* display width is above 800 and the canvas is 800 wide.
C19_Witness ==
    /\ last.op = "ImgOnLoad"
    /\ shown.image # NoImage
    /\ ShownImage = Size(1060, 500)
    /\ maxDisplay = DefaultBounds
    /\ lessThan(number(800), displayWidth(ShownImage, maxDisplay))
    /\ Canvas.width = 800

\* the exact product of a positive integer and a double: its binary digits up
\* to the last 1, and the binary exponent of that digit
exactProduct(n, d) ==
    LET bits == timesInt(d.m, n, 0)
        end == CHOOSE i \in 1..Len(bits) :
                   bits[i] = 1 /\ \A j \in (i + 1)..Len(bits) : bits[j] = 0
    IN  [m |-> SubSeq(bits, 1, end), e |-> d.e + (Len(bits) - end)]

\* how far the canvas is from the image's aspect ratio:
\* | width x naturalHeight - height x naturalWidth |
AspectError(canvas, img) ==
    LET a == canvas.width * img.naturalHeight
        b == canvas.height * img.naturalWidth
    IN  IF a >= b THEN a - b ELSE b - a

\* C20 as stated: displayWidth x naturalHeight = displayHeight x naturalWidth,
\* for the computed display size and for the dimensions of the canvas.
C20_ScalingIsUniform ==
    shown.image # NoImage =>
        /\ exactProduct(ShownImage.naturalHeight, displayWidth(ShownImage, maxDisplay))
               = exactProduct(ShownImage.naturalWidth, displayHeight(ShownImage, maxDisplay))
        /\ AspectError(Canvas, ShownImage) = 0

\* C20, amended: scaling is uniform up to the cut to whole pixels: the canvas's
\* width x naturalHeight and height x naturalWidth differ by no more than the
\* larger of naturalWidth and naturalHeight, that is by less than one pixel
\* of the scaled image on either axis.
C20_RasterKeepsAspectWithinAPixel ==
    shown.image # NoImage =>
        AspectError(Canvas, ShownImage)
            <= (IF ShownImage.naturalWidth >= ShownImage.naturalHeight
                THEN ShownImage.naturalWidth ELSE ShownImage.naturalHeight)

\* C20 witness: a 1000 x 333 image is shown within 800 x 600 on a canvas of
\* 800 x 266, the display height being 266.4.
C20_Witness ==
    /\ shown.image # NoImage
    /\ ShownImage = Size(1000, 333)
    /\ maxDisplay = DefaultBounds
    /\ Canvas.width = 800
    /\ Canvas.height = 266
    /\ AspectError(Canvas, ShownImage) > 0

\* the canvases a render can find: a blank one, and the one that the render
\* before the latest operation drew
CanvasesBefore == {BlankCanvas, drawEffect(BlankCanvas, PreState, natural, maxDisplay)}

\* C21: running the draw effect again with unchanged image, bounds, committed
\* strokes, active stroke and drawing flag leaves the canvas that the first
\* run left, with and without an image; every further run then starts from
\* that same canvas with the same inputs.
C21_RenderIdempotent ==
    \A before \in CanvasesBefore :
        LET once == drawEffect(before, shown, natural, maxDisplay)
        IN  drawEffect(once, shown, natural, maxDisplay) = once

\* C21 witness: an image scaled to whole pixels is shown with a committed
\* stroke under the stroke in progress, on a canvas that already has its size.
C21_Witness ==
    /\ shown.image # NoImage
    /\ shown.drawingPaths # <<>>
    /\ shown.isDrawing
    /\ pre.image = shown.image
    /\ sameNumber(Canvas.width, displayWidth(ShownImage, maxDisplay))
    /\ sameNumber(Canvas.height, displayHeight(ShownImage, maxDisplay))

\* the latest operation was a reset (clearSelection, alone or in the host's
\* handleClear), a load completion, or the change to an empty source
ResetOrLoad ==
    last.op \in {"clearSelection", "handleClear", "ImgOnLoad", "ImgOnError",
                 "SetImageFileNull"}

PointerInput == last.op \in {"Start", "StartSecondary", "Move", "End"}

\* C30: while there is no bitmap a pointer-down, pointer-move or pointer-up
\* changes nothing: the recorder does not enter Drawing, no point is recorded,
\* no stroke is committed and nothing is passed to onSelectionChange.
C30_NoBitmapPointerIgnored ==
    (PointerInput /\ pre.image = NoImage)
        => /\ State = PreState
           /\ last.notify = <<>>
           /\ hasMarkings = pre.hasMarkings

\* C30 witness: a primary pointer-down arrived on the mounted component before
\* its image was loaded.
C30_Witness ==
    /\ last.op = "Start"
    /\ pre.image = NoImage
    /\ imageFile # NoFile
    /\ ~isDrawing

\* the latest step started a load request
LoadStarted ==
    /\ last.req # NoReq
    /\ last.op \notin {"ReaderOnError", "ImgOnLoad", "ImgOnError", "OrphanCompletes"}

\* C22: a load is started only by a change of the image source: with the
\* source unchanged no other event (a render, another onSelectionChange
\* function, pointer input, clear) starts a load, whose completion would wipe
\* the committed strokes.
C22_LoadOnlyOnSourceChange ==
    LoadStarted => last.op = "SetImageFile"

\* the first file of the latest event on the uploader
HandledFile == handled.files[1]

\* the uploader's handler ran on a file: a change of the input, or a drop
\* while enabled (for drops while disabled see C24)
FileHandled ==
    /\ handled.op \in {"change", "drop"}
    /\ handled.files # <<>>
    /\ ~(handled.op = "drop" /\ handled.disabled)

\* C23: for a selected or dropped file, onImageUpload is called, once and
\* with that file, exactly if the file's type starts with "image/"; for any
\* other file it is not called, the alert is raised and no file name is shown.
C23_UploadIffImageType ==
    FileHandled =>
        IF startsWith(HandledFile.type, <<"image", "/">>)
        THEN /\ handled.onImageUpload = <<HandledFile>>
             /\ handled.alert = <<>>
        ELSE /\ handled.onImageUpload = <<>>
             /\ handled.alert = <<PleaseSelect>>
             /\ fileName = NoName

\* C23 witness: a file that is no image was dropped on the enabled uploader
\* while it showed a file name.
C23_Witness ==
    /\ FileHandled
    /\ handled.op = "drop"
    /\ ~startsWith(HandledFile.type, <<"image", "/">>)
    /\ handled.fileName # NoName
    /\ handled.alert # <<>>

\* C24: while the uploader is disabled no user action on it (a change of the
\* file input, a click, a drop) calls onImageUpload or changes the file name
\* shown.
C24_DisabledUploaderIgnoresInput ==
    (handled.disabled /\ handled.op \in {"change", "click", "clear", "dragover", "drop"})
        => /\ handled.onImageUpload = <<>>
           /\ fileName = handled.fileName

\* the image data has no comma, or nothing after its first comma
NoPayload(data) ==
    \/ \A i \in 1..Len(data) : data[i] # ","
    \/ data[Len(data)] = "," /\ \A i \in 1..(Len(data) - 1) : data[i] # ","

\* C25: a call with an empty API key is rejected with "Gemini API key is not
\* configured.", whatever the image data; a call with a key and image data
\* without a payload after its first comma is rejected with "Invalid image
\* data format."; neither issues an API request.
C25_InvalidInputRejectedWithoutRequest ==
    outcome.op = "call" =>
        /\ outcome.apiKey = ""
              => outcome.result = Rejected(NotConfigured) /\ ~outcome.requested
        /\ (outcome.apiKey # "" /\ NoPayload(outcome.data))
              => outcome.result = Rejected(InvalidFormat) /\ ~outcome.requested

\* C25 witness: a call with neither a key nor a payload, made while a request
\* of an earlier call is awaiting its response.
C25_Witness ==
    /\ outcome.op = "call"
    /\ outcome.apiKey = ""
    /\ NoPayload(outcome.data)
    /\ requests # {}

\* C26: a failed API call rejects the call, with "Invalid API Key. Please
\* check your configuration." for an Error whose message contains "API key not
\* valid", with "Gemini API request failed: " and the message for any other
\* Error, and with the unknown-error message for what is no Error.
C26_ApiFailureMapped ==
    (outcome.op = "respond" /\ outcome.response.kind # "text") =>
        outcome.result =
            IF outcome.response.kind # "error" THEN Rejected(UnknownError)
            ELSE IF \E i \in 1..Len(outcome.response.text) :
                        <<outcome.response.text[i]>> = KeyNotValid
                 THEN Rejected(InvalidKey)
                 ELSE Rejected(RequestFailed \o outcome.response.text)

\* C26 witness: the API failed with an Error about the key.
C26_Witness ==
    /\ outcome.op = "respond"
    /\ outcome.response.kind = "error"
    /\ includes(outcome.response.text, KeyNotValid)
    /\ outcome.result.state = "rejected"

\* C27: a call never resolves with an empty explanation: a non-empty text from
\* the API is what the call resolves with, and an empty text rejects the call
\* with a message that contains "No explanation received from the API.".
C27_NoEmptyExplanation ==
    /\ outcome.result.state = "resolved" => outcome.result.value # <<>>
    /\ (outcome.op = "respond" /\ outcome.response.kind = "text") =>
           IF outcome.response.text # <<>>
           THEN outcome.result = Resolved(outcome.response.text)
           ELSE /\ outcome.result.state = "rejected"
                /\ includes(outcome.result.value, NoExplanation)

\* C27 witness: the API answered with an empty text.
C27_Witness ==
    /\ outcome.op = "respond"
    /\ outcome.response = Response("text", <<>>)
    /\ outcome.result.state = "rejected"

\* C28: the client that serves the request of a call was instantiated with
\* the apiKey passed to that call.
C28_ClientHasTheCallsKey ==
    \A request \in requests : request.client = GoogleGenAI(request.apiKey)

\* the canvas as the render before the latest operation left it
CanvasBefore == drawEffect(BlankCanvas, PreState, natural, maxDisplay)

\* C31: a render that follows a render of the same image under the same
\* bounds finds the canvas with the display dimensions and clears it instead
\* of allocating it anew, also when the display size is no whole number of
\* pixels.
C31_SameSizeNoReallocation ==
    (/\ pre.image # NoImage
     /\ shown.image = pre.image
     /\ last.op # "SetMaxDisplay")
        => /\ sameNumber(CanvasBefore.width, displayWidth(ShownImage, maxDisplay))
           /\ sameNumber(CanvasBefore.height, displayHeight(ShownImage, maxDisplay))

C33_ClearKeepsBitmap ==
    last.op = "clearSelection" =>
        /\ image = pre.image
        /\ shown.image = pre.image
        /\ pre.image # NoImage =>
               /\ Canvas.width = CanvasBefore.width
               /\ Canvas.height = CanvasBefore.height
               /\ ~Exported.null
               /\ Exported.data # <<>>

\* C33 witness: clearSelection was called on an image with a committed stroke,
\* and the next render has taken place.
C33_Witness ==
    /\ last.op = "clearSelection"
    /\ pre.image # NoImage
    /\ pre.drawingPaths # <<>>
    /\ Rendered

\* a load request for the source f that the component is mounted with is in
\* flight
LoadAwaited(f) ==
    /\ imageFile = f
    /\ \E r \in loads : r.src = f /\ ~r.orphan

\* C34: a load request for a source, unless the source is replaced, leads to
\* one of two outcomes: the source's image with no strokes, or no image with
\* no strokes; this also when the read of the source fails.
C34_LoadEventuallyResolves ==
    \A f \in Sources :
        LoadAwaited(f) ~> \/ imageFile # f
                          \/ image \in {f, NoImage} /\ drawingPaths = <<>>

\* C35: Learn sends a request only with an API key, an uploaded file,
\* markings, the display mounted and image data in its export; without a key
\* it sets the key's error message; and when it sends no request it has set
\* an error message, nothing is in flight and isLoading is false.
C35_LearnOnlyWhenReady ==
    act.op = "handleLearn" =>
        /\ act.requested =>
               /\ API_KEY # ""
               /\ imageFile # NoFile
               /\ act.hasMarkings
               /\ outcome.op = "call" /\ ~NoPayload(outcome.data)
               /\ requests # {}
        /\ API_KEY = "" => ~act.requested /\ error = AppErrors.keyMissing
        /\ ~act.requested => error # <<>> /\ requests = {} /\ learning = 0 /\ ~isLoading

\* C35 witness: Learn was clicked without an API key, with a file uploaded
\* and markings made.
C35_Witness ==
    /\ act.op = "handleLearn"
    /\ API_KEY = ""
    /\ imageFile # NoFile
    /\ act.hasMarkings

\* C36: at most one explanation request is in flight; isLoading is true
\* exactly while one is; and neither handleImageUpload nor a request of
\* handleLearn took place while isLoading was true.
C36_OneRequestInFlight ==
    /\ learning <= 1
    /\ Cardinality(requests) <= 1
    /\ isLoading <=> learning = 1
    /\ act.op = "handleImageUpload" => ~act.isLoading
    /\ (act.op = "handleLearn" /\ act.requested) => ~act.isLoading

\* C36 witness: an image file was dropped on the uploader while a request
\* was in flight, after Clear All.
C36_Witness ==
    /\ learning = 1
    /\ isLoading
    /\ handled.op = "drop"
    /\ handled.disabled
    /\ handled.files # <<>>
    /\ imageFile = NoFile

\* C37: a started explanation request leads to isLoading false with exactly
\* one of geminiResponse and error updated by the end of handleLearn.
C37_RequestEventuallyEnds ==
    (learning > 0) ~> /\ learning = 0
                      /\ ~isLoading
                      /\ act.op = "learnSettled"
                      /\ (geminiResponse # act.geminiResponse) # (error # act.error)

\* C37 witness: handleLearn has ended after its request, which was in flight
\* when Clear All was clicked.
C37_Witness ==
    /\ act.op = "learnSettled"
    /\ act.isLoading
    /\ act.imageFile = NoFile
    /\ ~isLoading

\* C38: an explanation or an error is displayed only while a file is
\* uploaded; the explanation is displayed while geminiResponse is set and
\* isLoading is false, the error while error is set.
C38_ResultOnlyWithImage ==
    ((geminiResponse # <<>> /\ ~isLoading) \/ error # <<>>) => imageFile # NoFile

\* C39: the uploader shows a file name exactly when the host holds an
\* uploaded file.
C39_FileNameIffUploaded ==
    fileName # NoName <=> imageFile # NoFile

=============================================================================
